---- MODULE Spec2Model ----
(***************************************************************************)
(* Model of the intersection and shading-dispatch core of rayn:            *)
(* src/src/hitable.rs (Hit, WHit, WShadingPoint, HitStore, HitableStore)   *)
(* and src/src/camera.rs (PinholeCamera, ThinLensCamera).                  *)
(*                                                                         *)
(* Object ids are 0-based as in the source (enumerate(), get_unchecked);   *)
(* the sequence that models a Vec holds the element with id i at i + 1.    *)
(* Lanes of a f32x4 / WRay / [Hit; 4] are numbered 1..4 (source 0..3).     *)
(***************************************************************************)
EXTENDS Integers, Sequences, FiniteSets, Bags, TLC

\* ------------------------------------------------------------------ bounds

\* Most objects ever pushed into the HitableStore.
MaxObjs == 2
\* add_hits is not called once this many entries are staged in the HitStore.
MaxStaged == 6
\* Largest finite f32 value of a t (hit distance or range end).
MaxT == 2
\* process_hits is not called on an output buffer that holds more entries.
MaxOut == 1
\* Most objects in a collection test_occluded folds over.
MaxOccluders == 3
\* Largest absolute value of a component of a shading normal.
MaxCoord == 1
\* Largest offset distance of a shading point.
MaxOffset == 1
\* Largest tan(vfov / 2) of a thin-lens camera, in halves.
MaxHalfHeight == 2
\* Largest aperture of a thin-lens camera.
MaxAperture == 1
\* Largest distance from the origin of a thin-lens camera to its focus point.
MaxFocus == 1
\* Most render threads that share one HitableStore.
MaxWorkers == 2
\* Bits of the significand of the f32 model of occlusion values.
MantBits == 2
\* The smallest positive occlusion value is 2^-FracBits.
FracBits == 3

\* ------------------------------------------------------- program constants

\* Width of f32x4, WRay and [Hit; 4].
LaneCount == 4
\* std::usize::MAX, the "no hit" id; ids are only compared with it.
UsizeMax == 2147483647

Lanes == 1..LaneCount

\* --------------------------------------------------------------- f32 for t

\* The f32 values a t takes: finite 0..MaxT and one NaN.
NaN == MaxT + 1
F32 == 0..NaN

\* f32 `<=`
FLe(a, b) == a # NaN /\ b # NaN /\ a <= b

\* f32 `<`: false as soon as one side is NaN.
FLt(a, b) == a # NaN /\ b # NaN /\ a < b

\* f32 `>=`
FGe(a, b) == a # NaN /\ b # NaN /\ a >= b

\* -------------------------------------------------------------------- rays

\* A Ray is its validity and an id that stands for its origin and direction.

\* Ray::new_invalid(): the sentinel ray, marked invalid.
NewInvalid == [valid |-> FALSE, id |-> 0]

\* impl From<WRay> for [Ray; 4]: lane l of every field makes Ray l.
RaysOf(wray) == [l \in Lanes |-> [valid |-> wray.valid[l], id |-> wray.id[l]]]

\* impl From<[Ray; 4]> for WRay: field by field, Ray l makes lane l.
WRayFrom(rays) ==
    [valid |-> [l \in Lanes |-> rays[l].valid], id |-> [l \in Lanes |-> rays[l].id]]

\* impl From<[Hit; 4]> for WHit
WHitFrom(h) ==
    [ray |-> WRayFrom([l \in Lanes |-> h[l].ray]), t |-> [l \in Lanes |-> h[l].t]]

\* ------------------------------------------------------------------- state

VARIABLES
    hitables,       \* HitableStore.0: the objects, in push order
    built,          \* whether HitStore::from_hitable_store has run
    hits,           \* HitStore.hits: one staging list per object id
    wintersections, \* the caller's output buffer, handed to process_hits
    op,             \* the operation that ran last
    unchecked,      \* the unchecked accesses of the last operation: [index, len]
    ray,            \* add_hits argument: the packet
    t_end,          \* add_hits argument: t_ranges.end
    t_ret,          \* what hit() of object id i returns, at i + 1
    occluded_ret,   \* what occluded(start, end, time) of each object returns
    occ_result,     \* what test_occluded returned
    worker,         \* per render thread: its HitStore, buffer and position
    solo,           \* per render thread: what its operations give when run alone
    new_hit,        \* WShadingPoint::new argument hit: the WHit of a batch
    shading_point,  \* the WShadingPoint built from it
    dir,            \* create_rays argument
    created,        \* what create_rays returned
    camera,         \* a PinholeCamera or a ThinLensCamera
    rng,            \* the state of the caller's ThreadRng
    cam_ray         \* what get_ray returned

packet == <<ray, t_end, t_ret>>
occlusion == <<occluded_ret, occ_result>>
threads == <<worker, solo>>
shading == <<new_hit, shading_point, dir, created>>
cameras == <<camera, rng, cam_ray>>
vars == <<hitables, built, hits, wintersections, op, unchecked, packet, occlusion,
          threads, shading, cameras>>

\* The parts of the state a scenario does not use.
NoThreads == worker = <<>> /\ solo = <<>>
NoShading == new_hit = <<>> /\ shading_point = <<>> /\ dir = <<>> /\ created = <<>>
NoCameras == camera = <<>> /\ rng = 0 /\ cam_ray = <<>>

\* An unchecked access outside its Vec is undefined behaviour.
UB == \E a \in unchecked : a.index >= a.len

\* -------------------------------------------------- HitableStore::add_hits

Splat(x) == [l \in Lanes |-> x]

\* Mutant of FoldInit: the fold starts from the largest distance, not from the
\* end of the range.
FoldInitUnbounded(te) == [closest_ids |-> Splat(UsizeMax), closest |-> Splat(MaxT)]

\* Line 182: the fold starts from no id and the end of the range in each lane.
FoldInit(te) == [closest_ids |-> Splat(UsizeMax), closest |-> te]

\* Mutant of FoldStep: the id is taken but the nearest distance is not updated.
FoldStepKeepsEnd(acc, hitable_id, t) ==
    [closest_ids |->
        [l \in Lanes |->
            IF FLt(t[l], acc.closest[l]) THEN hitable_id ELSE acc.closest_ids[l]],
     closest |-> acc.closest]

\* Mutant of FoldStep: `<=` for `<`, so that the later object wins a tie.
FoldStepLastWins(acc, hitable_id, t) ==
    [closest_ids |->
        [l \in Lanes |->
            IF FLe(t[l], acc.closest[l]) THEN hitable_id ELSE acc.closest_ids[l]],
     closest |->
        [l \in Lanes |-> IF FLe(t[l], acc.closest[l]) THEN t[l] ELSE acc.closest[l]]]

\* Lines 183-201: one object. t is what its hit(&ray, start..closest) returned.
FoldStep(acc, hitable_id, t) ==
    [closest_ids |->
        [l \in Lanes |->
            IF FLt(t[l], acc.closest[l]) THEN hitable_id ELSE acc.closest_ids[l]],
     closest |->
        [l \in Lanes |-> IF FLt(t[l], acc.closest[l]) THEN t[l] ELSE acc.closest[l]]]

\* Lines 181-202: the fold over the first k objects, in collection order.
RECURSIVE FoldHits(_, _, _)
FoldHits(k, te, tr) ==
    IF k = 0 THEN FoldInit(te) ELSE FoldStep(FoldHits(k - 1, te, tr), k - 1, tr[k])

\* Mutant of AddHitCalls: the validity of the ray is not looked at.
RECURSIVE AddHitCallsAnyRay(_, _, _, _)
AddHitCallsAnyRay(l, ids, rays, dists) ==
    IF l = 0
    THEN <<>>
    ELSE LET before == AddHitCallsAnyRay(l - 1, ids, rays, dists)
         IN  IF ids[l] < UsizeMax
             THEN Append(before,
                         [obj_id |-> ids[l], hit |-> [ray |-> rays[l], t |-> dists[l]]])
             ELSE before

\* Lines 207-213: the add_hit calls made for lanes 1..l, in lane order.
RECURSIVE AddHitCalls(_, _, _, _)
AddHitCalls(l, ids, rays, dists) ==
    IF l = 0
    THEN <<>>
    ELSE LET before == AddHitCalls(l - 1, ids, rays, dists)
         IN  IF ids[l] < UsizeMax /\ rays[l].valid
             THEN Append(before,
                         [obj_id |-> ids[l], hit |-> [ray |-> rays[l], t |-> dists[l]]])
             ELSE before

\* The add_hit calls of add_hits(w, te..) on n objects whose hit() returns tr.
CallsOf(n, w, te, tr) ==
    LET acc == FoldHits(n, te, tr)
    IN  AddHitCalls(LaneCount, acc.closest_ids, RaysOf(w), acc.closest)

\* Mutant of AddHit: the hit is put in front of the list.
AddHitFront(store, obj_id, hit) == [store EXCEPT ![obj_id + 1] = <<hit>> \o @]

\* HitStore::add_hit with obj_id inside the Vec.
AddHit(store, obj_id, hit) == [store EXCEPT ![obj_id + 1] = Append(@, hit)]

\* The calls up to the first one whose obj_id is outside the Vec.
RECURSIVE ApplyCalls(_, _)
ApplyCalls(store, calls) ==
    IF calls = <<>> \/ Head(calls).obj_id >= Len(store)
    THEN store
    ELSE ApplyCalls(AddHit(store, Head(calls).obj_id, Head(calls).hit), Tail(calls))

\* What add_hits can leave in the HitStore. get_unchecked_mut outside the Vec
\* is undefined: the stray push lands outside the store or in one of its lists.
AddHitsOutcomes(store, calls) ==
    LET done == ApplyCalls(store, calls)
        oob  == {i \in 1..Len(calls) : calls[i].obj_id >= Len(store)}
    IN  IF oob = {}
        THEN {done}
        ELSE LET first == CHOOSE i \in oob : \A j \in oob : i <= j
             IN  {done} \cup {AddHit(done, id, calls[first].hit) : id \in 0..(Len(store) - 1)}

RECURSIVE SumLens(_)
SumLens(store) == IF store = <<>> THEN 0 ELSE Len(Head(store)) + SumLens(Tail(store))

\* ------------------------------------------------- HitStore::process_hits

Sentinel == [ray |-> NewInvalid, t |-> 0]

\* Mutant of PadList: 4 - len % 4 sentinels, also when len % 4 is 0.
PadListAlways(list) ==
    list \o [j \in 1..(LaneCount - (Len(list) % LaneCount)) |-> Sentinel]

\* Mutant of PadList: the sentinels are put in front of the staged hits.
PadListFront(list) ==
    [j \in 1..((LaneCount - (Len(list) % LaneCount)) % LaneCount) |-> Sentinel] \o list

\* Lines 109-114: push sentinels while the length is no multiple of four.
RECURSIVE PadList(_)
PadList(list) ==
    IF Len(list) % LaneCount # 0 THEN PadList(Append(list, Sentinel)) ELSE list

\* Lines 105-117
PadAll(store) == [i \in 1..Len(store) |-> PadList(store[i])]

\* Mutant of Chunks: windows(4), the groups of four that start at every entry.
ChunksWindows(list) ==
    [k \in 1..(IF Len(list) < LaneCount THEN 0 ELSE Len(list) - LaneCount + 1) |->
        [l \in Lanes |-> list[k - 1 + l]]]

\* Line 122: chunks_exact(4), which leaves out a remainder shorter than four.
Chunks(list) ==
    [k \in 1..(Len(list) \div LaneCount) |->
        [l \in Lanes |-> list[LaneCount * (k - 1) + l]]]

\* What Hitable::get_shading_info of object obj returns for a batch.
ShadingInfo(obj, whit, primary) == [by |-> obj, hits |-> whit, primary |-> primary]

\* Lines 122-137: the entries pushed for one object id.
EntriesOf(objs, obj_id, list, primary) ==
    LET c == Chunks(list)
    IN  [k \in 1..Len(c) |-> ShadingInfo(objs[obj_id + 1], WHitFrom(c[k]), primary)]

\* Mutant of Dispatch: the lists are gone through from the last to the first.
RECURSIVE DispatchDescending(_, _, _, _)
DispatchDescending(objs, store, n, primary) ==
    IF n = 0
    THEN <<>>
    ELSE EntriesOf(objs, n - 1, store[n], primary)
            \o DispatchDescending(objs, store, n - 1, primary)

\* Lines 121-138: the entries pushed for the object ids below n, in order.
RECURSIVE Dispatch(_, _, _, _)
Dispatch(objs, store, n, primary) ==
    IF n = 0
    THEN <<>>
    ELSE Dispatch(objs, store, n - 1, primary)
            \o EntriesOf(objs, n - 1, store[n], primary)

\* ----------------------------------------------------------------- actions

NoPacket == [ray   |-> [valid |-> Splat(FALSE), id |-> Splat(0)],
             t_end |-> Splat(0),
             t_ret |-> <<>>]

Init ==
    /\ hitables = <<>>
    /\ built = FALSE
    /\ hits = <<>>
    /\ wintersections = <<>>
    /\ op = "new"
    /\ unchecked = {}
    /\ ray = NoPacket.ray
    /\ t_end = NoPacket.t_end
    /\ t_ret = NoPacket.t_ret
    /\ occluded_ret = <<>>
    /\ occ_result = <<>>
    /\ NoThreads /\ NoShading /\ NoCameras

\* Mutant of Push: the new object is put in front, so every id moves by one.
PushFront ==
    /\ ~UB
    /\ Len(hitables) < MaxObjs
    /\ hitables' = <<Len(hitables) + 1>> \o hitables
    /\ op' = "push"
    /\ unchecked' = {}
    /\ UNCHANGED <<built, hits, wintersections, packet, occlusion, threads, shading, cameras>>

\* HitableStore::push (lines 155-157). The hitable is moved into the store, so
\* it is an object the store does not hold yet: the objects are numbered in
\* the order of their creation.
Push ==
    /\ ~UB
    /\ Len(hitables) < MaxObjs
    /\ hitables' = Append(hitables, Len(hitables) + 1)
    /\ op' = "push"
    /\ unchecked' = {}
    /\ UNCHANGED <<built, hits, wintersections, packet, occlusion, threads, shading, cameras>>

\* HitStore::from_hitable_store (lines 86-92)
FromHitableStore ==
    /\ ~UB
    /\ built' = TRUE
    /\ hits' = [i \in 1..Len(hitables) |-> <<>>]
    /\ op' = "from_hitable_store"
    /\ unchecked' = {}
    /\ UNCHANGED <<hitables, wintersections, packet, occlusion, threads, shading, cameras>>

\* HitableStore::add_hits (lines 175-214) on the HitStore
AddHitsOn(w, te, tr) ==
    LET calls == CallsOf(Len(hitables), w, te, tr)
    IN  /\ built
        /\ ~UB
        /\ SumLens(hits) + Len(calls) <= MaxStaged
        /\ hits' \in AddHitsOutcomes(hits, calls)
        /\ unchecked' = {[index |-> calls[i].obj_id, len |-> Len(hits)] : i \in 1..Len(calls)}
        /\ op' = "add_hits"
        /\ UNCHANGED <<hitables, built, wintersections, occlusion, threads, shading, cameras>>

\* The packets of the pipeline: lane l holds a valid ray, every other lane an
\* invalid ray that every object reports as hit. The valid ray is a new one,
\* numbered after the valid rays already staged. The object with id c - 1 hits
\* it at the distance NearT, the others miss it (they return the end of the
\* range); with c = 0 every object misses it. add_hits neither reads nor
\* writes the output buffer: the caller stages packets once it has taken the
\* entries of the pass before out of its buffer.
NearT(id) == id % MaxT

RECURSIVE CountValid(_)
CountValid(list) ==
    IF list = <<>> THEN 0
    ELSE (IF Head(list).ray.valid THEN 1 ELSE 0) + CountValid(Tail(list))

RECURSIVE SumValid(_)
SumValid(store) ==
    IF store = <<>> THEN 0 ELSE CountValid(Head(store)) + SumValid(Tail(store))

Packet(n, l, r, c) ==
    [ray   |-> [valid |-> [m \in Lanes |-> m = l],
                id    |-> [m \in Lanes |-> IF m = l THEN r ELSE 0]],
     t_end |-> Splat(MaxT),
     t_ret |-> [i \in 1..n |->
                  [m \in Lanes |->
                      IF m # l THEN 0 ELSE IF c = i THEN NearT(r) ELSE MaxT]]]

AddHits ==
    \E l \in Lanes, c \in 0..Len(hitables) :
        LET p == Packet(Len(hitables), l, SumValid(hits) + 1, c)
        IN  /\ wintersections = <<>>
            /\ AddHitsOn(p.ray, p.t_end, p.t_ret)
            /\ UNCHANGED packet

\* Mutant of ProcessHits: the lists are emptied once their batches are out.
ProcessHitsDrains(primary) ==
    LET padded == PadAll(hits)
    IN  /\ built
        /\ ~UB
        /\ Len(wintersections) <= MaxOut
        /\ hits' = [i \in 1..Len(hits) |-> <<>>]
        /\ wintersections' =
                wintersections \o Dispatch(hitables, padded, Len(padded), primary)
        /\ unchecked' = {[index |-> i - 1, len |-> Len(hitables)] :
                            i \in {j \in 1..Len(padded) : padded[j] # <<>>}}
        /\ op' = "process_hits"
        /\ UNCHANGED <<hitables, built, packet, occlusion, threads, shading, cameras>>

\* HitStore::process_hits (lines 98-139)
ProcessHits(primary) ==
    LET padded == PadAll(hits)
    IN  /\ built
        /\ ~UB
        /\ Len(wintersections) <= MaxOut
        /\ hits' = padded
        /\ wintersections' =
                wintersections \o Dispatch(hitables, padded, Len(padded), primary)
        /\ unchecked' = {[index |-> i - 1, len |-> Len(hitables)] :
                            i \in {j \in 1..Len(padded) : padded[j] # <<>>}}
        /\ op' = "process_hits"
        /\ UNCHANGED <<hitables, built, packet, occlusion, threads, shading, cameras>>

\* Mutant of Reset: the Vec of lists is cleared, not each list.
ResetClearsOuter ==
    /\ built
    /\ ~UB
    /\ hits' = <<>>
    /\ op' = "reset"
    /\ unchecked' = {}
    /\ UNCHANGED <<hitables, built, wintersections, packet, occlusion, threads, shading, cameras>>

\* HitStore::reset (lines 141-145)
Reset ==
    /\ built
    /\ ~UB
    /\ hits' = [i \in 1..Len(hits) |-> <<>>]
    /\ op' = "reset"
    /\ unchecked' = {}
    /\ UNCHANGED <<hitables, built, wintersections, packet, occlusion, threads, shading, cameras>>

\* The caller takes the entries out of its output buffer.
TakeOutput ==
    /\ ~UB
    /\ wintersections # <<>>
    /\ wintersections' = <<>>
    /\ op' = "take_output"
    /\ unchecked' = {}
    /\ UNCHANGED <<hitables, built, hits, packet, occlusion, threads, shading, cameras>>

Next ==
    \/ Push
    \/ FromHitableStore
    \/ AddHits
    \/ \E primary \in BOOLEAN : ProcessHits(primary)
    \/ Reset
    \/ TakeOutput

Spec == Init /\ [][Next]_vars

\* ------------------------------------------- add_hits on drawn arguments

\* The packets add_hits is applied to: four distinct rays (ray l in lane l),
\* any of them invalid; the end of the range is e in lane 1 and runs through
\* the f32 values from lane to lane; the objects return the values of base,
\* shifted by one object from lane to lane, so that every lane sees its own
\* order of the same distances.
DrawnPacket(n, valid, e, base) ==
    [ray   |-> [valid |-> valid, id |-> [m \in Lanes |-> m]],
     t_end |-> [m \in Lanes |-> (e + m - 1) % (NaN + 1)],
     t_ret |-> [i \in 1..n |-> [m \in Lanes |-> base[((i + m - 2) % n) + 1]]]]

\* A HitableStore of n objects, the HitStore built from it, and a packet.
InitAddHits ==
    \E n \in 0..MaxObjs :
        \E valid \in [Lanes -> BOOLEAN], e \in F32, base \in [1..n -> F32] :
            LET p == DrawnPacket(n, valid, e, base)
            IN  /\ hitables = [i \in 1..n |-> i]
                /\ built = TRUE
                /\ hits = [i \in 1..n |-> <<>>]
                /\ wintersections = <<>>
                /\ op = "from_hitable_store"
                /\ unchecked = {}
                /\ ray = p.ray
                /\ t_end = p.t_end
                /\ t_ret = p.t_ret
                /\ occluded_ret = <<>>
                /\ occ_result = <<>>
                /\ NoThreads /\ NoShading /\ NoCameras

\* add_hits on the drawn packet
AddHitsDrawn ==
    /\ AddHitsOn(ray, t_end, t_ret)
    /\ UNCHANGED packet

NextAddHits == AddHitsDrawn

SpecAddHits == InitAddHits /\ [][NextAddHits]_vars

\* ------------------------------------------------------- render threads

\* Render threads share the HitableStore by `&` (add_hits takes &self,
\* process_hits takes hitables: &HitableStore); each owns a HitStore and an
\* output buffer, which the operations take by `&mut`. A thread runs one pass:
\* add_hits on a packet, process_hits, reset. The steps of a thread are the
\* iterations of the loops of the source, so that threads interleave inside
\* the operations.
Workers == 1..MaxWorkers

\* The packet of thread w: its ray in one lane, aimed at the object c (at
\* none with c = 0).
WorkerPacket(w, c) == Packet(Len(hitables), ((w - 1) % LaneCount) + 1, w, c)

WorkerPrimary(w) == w % 2 = 1

\* A HitableStore of n objects; every thread has built its HitStore from it.
InitWorkers ==
    \E n \in 1..MaxObjs :
        /\ hitables = [i \in 1..n |-> i]
        /\ built = FALSE
        /\ hits = <<>>
        /\ wintersections = <<>>
        /\ op = "new"
        /\ unchecked = {}
        /\ ray = NoPacket.ray
        /\ t_end = NoPacket.t_end
        /\ t_ret = NoPacket.t_ret
        /\ occluded_ret = <<>>
        /\ occ_result = <<>>
        /\ worker = [w \in Workers |->
                        [pc |-> "start", hits |-> [i \in 1..n |-> <<>>], out |-> <<>>,
                         pkt |-> NoPacket, k |-> 0, acc |-> FoldInit(NoPacket.t_end)]]
        /\ solo = [w \in Workers |-> [hits |-> [i \in 1..n |-> <<>>], out |-> <<>>]]
        /\ NoShading /\ NoCameras

OnlyThreads ==
    UNCHANGED <<hitables, built, hits, wintersections, unchecked, packet, occlusion,
                shading, cameras>>

\* add_hits is entered (lines 175-182). Run alone, the call as a whole stages
\* the hits of CallsOf.
WorkerAddHits(w) ==
    \E c \in 0..Len(hitables) :
        LET p == WorkerPacket(w, c)
        IN  /\ worker[w].pc = "start"
            /\ worker' = [worker EXCEPT ![w].pc = "fold", ![w].pkt = p, ![w].k = 0,
                                        ![w].acc = FoldInit(p.t_end)]
            /\ solo' = [solo EXCEPT ![w].hits =
                            ApplyCalls(@, CallsOf(Len(hitables), p.ray, p.t_end, p.t_ret))]
            /\ op' = "add_hits"
            /\ OnlyThreads

\* One iteration of the fold (lines 183-201): hit() of the shared object k.
WorkerFold(w) ==
    /\ worker[w].pc = "fold"
    /\ worker[w].k < Len(hitables)
    /\ worker' = [worker EXCEPT
                    ![w].acc = FoldStep(@, worker[w].k,
                                        worker[w].pkt.t_ret[hitables[worker[w].k + 1]]),
                    ![w].k = @ + 1]
    /\ op' = "fold"
    /\ UNCHANGED solo
    /\ OnlyThreads

\* Mutant of WorkerRecord: the hits go to the HitStore of the first thread.
WorkerRecordShared(w) ==
    /\ worker[w].pc = "fold"
    /\ worker[w].k = Len(hitables)
    /\ worker' = [worker EXCEPT
                    ![1].hits = ApplyCalls(@, AddHitCalls(LaneCount, worker[w].acc.closest_ids,
                                                          RaysOf(worker[w].pkt.ray),
                                                          worker[w].acc.closest)),
                    ![w].pc = "staged"]
    /\ op' = "record"
    /\ UNCHANGED solo
    /\ OnlyThreads

\* The recording loop (lines 204-213) on the thread's own HitStore.
WorkerRecord(w) ==
    /\ worker[w].pc = "fold"
    /\ worker[w].k = Len(hitables)
    /\ worker' = [worker EXCEPT
                    ![w].hits = ApplyCalls(@, AddHitCalls(LaneCount, worker[w].acc.closest_ids,
                                                          RaysOf(worker[w].pkt.ray),
                                                          worker[w].acc.closest)),
                    ![w].pc = "staged"]
    /\ op' = "record"
    /\ UNCHANGED solo
    /\ OnlyThreads

\* process_hits is entered and pads (lines 105-119). Run alone, the call as a
\* whole pads and appends the entries of Dispatch.
WorkerProcessHits(w) ==
    /\ worker[w].pc = "staged"
    /\ worker' = [worker EXCEPT ![w].pc = "dispatch", ![w].hits = PadAll(@), ![w].k = 0]
    /\ solo' = [solo EXCEPT
                    ![w].hits = PadAll(@),
                    ![w].out = @ \o Dispatch(hitables, PadAll(solo[w].hits),
                                             Len(solo[w].hits), WorkerPrimary(w))]
    /\ op' = "process_hits"
    /\ OnlyThreads

\* One iteration of the dispatch loop (lines 121-138): the batches of the
\* list k go to the shared object k.
WorkerDispatch(w) ==
    /\ worker[w].pc = "dispatch"
    /\ worker[w].k < Len(worker[w].hits)
    /\ worker' = [worker EXCEPT
                    ![w].out = @ \o EntriesOf(hitables, worker[w].k,
                                              worker[w].hits[worker[w].k + 1],
                                              WorkerPrimary(w)),
                    ![w].k = @ + 1]
    /\ op' = "dispatch"
    /\ UNCHANGED solo
    /\ OnlyThreads

\* process_hits returns.
WorkerProcessed(w) ==
    /\ worker[w].pc = "dispatch"
    /\ worker[w].k = Len(worker[w].hits)
    /\ worker' = [worker EXCEPT ![w].pc = "processed"]
    /\ op' = "processed"
    /\ UNCHANGED solo
    /\ OnlyThreads

\* reset (lines 141-145)
WorkerReset(w) ==
    /\ worker[w].pc = "processed"
    /\ worker' = [worker EXCEPT ![w].pc = "done",
                                ![w].hits = [i \in 1..Len(@) |-> <<>>]]
    /\ solo' = [solo EXCEPT ![w].hits = [i \in 1..Len(@) |-> <<>>]]
    /\ op' = "reset"
    /\ OnlyThreads

NextWorkers ==
    \E w \in Workers :
        \/ WorkerAddHits(w)
        \/ WorkerFold(w)
        \/ WorkerRecord(w)
        \/ WorkerProcessHits(w)
        \/ WorkerDispatch(w)
        \/ WorkerProcessed(w)
        \/ WorkerReset(w)

SpecWorkers == InitWorkers /\ [][NextWorkers]_vars

\* ---------------------------------------------------------- WShadingPoint

\* Wec3 lanes are vectors of three f32; the values used are small integers,
\* on which f32 `+`, `-` and `*` are exact.
Coords == (0 - MaxCoord)..MaxCoord
Vec3s == Coords \X Coords \X Coords
Signs == {0 - 1, 0, 1}
Dirs == Signs \X Signs \X Signs

Dot(a, b) == a[1] * b[1] + a[2] * b[2] + a[3] * b[3]
VAdd(a, b) == <<a[1] + b[1], a[2] + b[2], a[3] + b[3]>>
VScale(a, x) == <<a[1] * x, a[2] * x, a[3] * x>>

\* f32 signum: 1 for a positive, -1 for a negative value. A zero has the sign
\* of the f32 zero (+0.0 gives 1, -0.0 gives -1), which an integer does not
\* carry: both.
Signums(x) == IF x > 0 THEN {1} ELSE IF x < 0 THEN {0 - 1} ELSE {1, 0 - 1}

\* The WHit of a batch: ray l in lane l, from the origin along the third
\* axis, found at the distance l; valid tells the real hits from the padding.
DrawnWHit(valid) ==
    [ray |-> [valid  |-> valid,
              id     |-> [l \in Lanes |-> IF valid[l] THEN l ELSE 0],
              origin |-> [l \in Lanes |-> <<0, 0, 0>>],
              dir    |-> [l \in Lanes |-> <<0, 0, 1>>]],
     t   |-> [l \in Lanes |-> IF valid[l] THEN l ELSE 0]]

\* The normals of a batch: n in lane 1, its opposite in lane 2, n with the
\* components rotated in lane 3 and n again in lane 4.
DrawnNormals(n) ==
    [l \in Lanes |->
        CASE l = 2 -> VScale(n, 0 - 1)
          [] l = 3 -> <<n[2], n[3], n[1]>>
          [] OTHER -> n]

\* WHit::point (lines 68-70): ray.point_at(t)
PointOf(hit) ==
    [l \in Lanes |-> VAdd(hit.ray.origin[l], VScale(hit.ray.dir[l], hit.t[l]))]

\* WShadingPoint::new (lines 35-44); the basis is a function of the normal.
WShadingPointNew(hit, point, offset_by, normal) ==
    [ray |-> hit.ray, t |-> hit.t, point |-> point, offset_by |-> offset_by,
     normal |-> normal, basis |-> normal]

\* Mutant of CreateRaysOf: the offset is always along the normal.
CreateRaysNoSign(sp, d, sgn) ==
    [sp.ray EXCEPT
        !.origin = [l \in Lanes |->
                      VAdd(sp.point[l], VScale(sp.normal[l], sp.offset_by[l]))],
        !.dir = d]

\* Mutant of CreateRaysOf: the rays are made anew, as valid rays.
CreateRaysValid(sp, d, sgn) ==
    [sp.ray EXCEPT
        !.valid = [l \in Lanes |-> TRUE],
        !.origin = [l \in Lanes |->
                      VAdd(sp.point[l], VScale(VScale(sp.normal[l], sgn[l]), sp.offset_by[l]))],
        !.dir = d]

\* WShadingPoint::create_rays (lines 46-51); sgn is normal.dot(dir).signum().
CreateRaysOf(sp, d, sgn) ==
    [sp.ray EXCEPT
        !.origin = [l \in Lanes |->
                      VAdd(sp.point[l], VScale(VScale(sp.normal[l], sgn[l]), sp.offset_by[l]))],
        !.dir = d]

\* A batch as process_hits hands it to get_shading_info.
InitShading ==
    \E valid \in [Lanes -> BOOLEAN] :
        /\ hitables = <<>>
        /\ built = FALSE
        /\ hits = <<>>
        /\ wintersections = <<>>
        /\ op = "new"
        /\ unchecked = {}
        /\ ray = NoPacket.ray
        /\ t_end = NoPacket.t_end
        /\ t_ret = NoPacket.t_ret
        /\ occluded_ret = <<>>
        /\ occ_result = <<>>
        /\ new_hit = DrawnWHit(valid)
        /\ shading_point = <<>>
        /\ dir = <<>>
        /\ created = <<>>
        /\ NoThreads /\ NoCameras

OnlyShading ==
    UNCHANGED <<hitables, built, hits, wintersections, unchecked, packet, occlusion,
                threads, cameras>>

\* get_shading_info builds the shading point of the batch: the point of the
\* hit, a normal and an offset distance (lane l: o + l - 1, within 0..MaxOffset).
NewShadingPoint ==
    \E n \in Vec3s, o \in 0..MaxOffset :
        /\ op = "new"
        /\ shading_point' =
                WShadingPointNew(new_hit, PointOf(new_hit),
                                 [l \in Lanes |-> (o + l - 1) % (MaxOffset + 1)],
                                 DrawnNormals(n))
        /\ op' = "shading_point"
        /\ UNCHANGED <<new_hit, dir, created>>
        /\ OnlyShading

\* create_rays(dir): the same direction d in lanes 1, 2 and 4, its opposite
\* in lane 3.
CreateRays ==
    /\ op = "shading_point"
    /\ \E d \in Dirs :
        LET wd == [l \in Lanes |-> IF l = 3 THEN VScale(d, 0 - 1) ELSE d]
        IN  \E sgn \in [Lanes -> Signs \ {0}] :
                /\ \A l \in Lanes : sgn[l] \in Signums(Dot(shading_point.normal[l], wd[l]))
                /\ dir' = wd
                /\ created' = CreateRaysOf(shading_point, wd, sgn)
                /\ op' = "create_rays"
                /\ UNCHANGED <<new_hit, shading_point>>
                /\ OnlyShading

NextShading == NewShadingPoint \/ CreateRays

SpecShading == InitShading /\ [][NextShading]_vars

\* ------------------------------------------------------- f32 for cameras

\* The f32 values of the cameras are multiples of 1/4 of small magnitude, on
\* which f32 `+`, `-` and `*` are exact: the integer q stands for q / 4.
QOne == 2 * 2
QHalf == QOne \div 2
QMul(a, b) == (a * b) \div QOne

\* A Vec3 none of whose components is a number.
NaNVec == <<999, 999, 999>>

VNeg(a) == IF a = NaNVec THEN NaNVec ELSE VScale(a, 0 - 1)
VPlus(a, b) == IF a = NaNVec \/ b = NaNVec THEN NaNVec ELSE VAdd(a, b)
VMinus(a, b) == VPlus(a, VNeg(b))
\* Vec3 * f32
VTimes(a, x) ==
    IF a = NaNVec THEN NaNVec ELSE <<QMul(a[1], x), QMul(a[2], x), QMul(a[3], x)>>
\* Vec3::cross
Cross(a, b) ==
    IF a = NaNVec \/ b = NaNVec THEN NaNVec
    ELSE <<QMul(a[2], b[3]) - QMul(a[3], b[2]),
           QMul(a[3], b[1]) - QMul(a[1], b[3]),
           QMul(a[1], b[2]) - QMul(a[2], b[1])>>

Abs(x) == IF x < 0 THEN 0 - x ELSE x

RECURSIVE Gcd(_, _)
Gcd(a, b) == IF b = 0 THEN a ELSE Gcd(b, a % b)

\* Vec3::magnitude, for a vector along an axis (the only ones it is taken of).
Magnitude(a) == Abs(a[1]) + Abs(a[2]) + Abs(a[3])

\* Vec3::normalized: v / |v|, which is 0 / 0 for the zero vector. The unit
\* vector along an axis is exact; the unit vector of another direction has
\* components that are no multiples of 1/4 and is held as the shortest
\* integer vector of its direction, times QOne.
Normalized(a) ==
    IF a = NaNVec \/ a = <<0, 0, 0>>
    THEN NaNVec
    ELSE LET g == Gcd(Gcd(Abs(a[1]), Abs(a[2])), Abs(a[3]))
         IN  <<(a[1] \div g) * QOne, (a[2] \div g) * QOne, (a[3] \div g) * QOne>>

\* Ray::new(origin, dir)
RayNew(origin, d) == [origin |-> origin, dir |-> d]

\* orientation * v, the orientation given by the images of the three axes.
Rotate(orientation, v) ==
    IF v = NaNVec THEN NaNVec
    ELSE VPlus(VPlus(VTimes(orientation[1], v[1]), VTimes(orientation[2], v[2])),
               VTimes(orientation[3], v[3]))

\* Sequenced::sample_at(time) of a Vec3 that moves at a constant velocity.
SampleAt(seq, time) == VPlus(seq.at0, VTimes(seq.velocity, time))

\* ThreadRng: the state r makes the next point of the unit disk and goes to
\* the next state.
DiskPoints ==
    << <<0, 0>>, <<QHalf, 0>>, <<0, 0 - QHalf>>, <<0 - QHalf, QHalf>> >>
RngStates == 0..(Len(DiskPoints) - 1)
\* Vec2::rand_in_unit_disk(rng)
RandInUnitDisk(r) == [value |-> DiskPoints[r + 1], rng |-> (r + 1) % Len(DiskPoints)]

\* ----------------------------------------------------------------- cameras

\* PinholeCamera::new (camera.rs lines 19-25)
PinholeNew(aspect_ratio, transform_sequence) ==
    [lower_left |-> <<QMul(0 - aspect_ratio, QHalf), 0 - QHalf, 0 - QOne>>,
     full_size |-> <<aspect_ratio, QOne, 0>>,
     transform_sequence |-> transform_sequence]

\* Vec3 * Vec2: x by x and y by y.
VTimes2(a, uv) == <<QMul(a[1], uv[1]), QMul(a[2], uv[2]), a[3]>>

\* Mutant of PinholeGetRayOf: the origin is moved by a point drawn from rng.
PinholeJittered(cam, uv, time, r) ==
    LET position == SampleAt(cam.transform_sequence.position, time)
        rnd == RandInUnitDisk(r)
    IN  [ray |-> RayNew(VPlus(position, <<rnd.value[1], rnd.value[2], 0>>),
                        Rotate(cam.transform_sequence.orientation,
                               Normalized(VPlus(cam.lower_left,
                                                VTimes2(cam.full_size, uv))))),
         rng |-> rnd.rng]

\* PinholeCamera::get_ray (camera.rs lines 29-32) called with rng in state r:
\* the ray and the state rng is left in.
PinholeGetRayOf(cam, uv, time, r) ==
    LET position == SampleAt(cam.transform_sequence.position, time)
    IN  [ray |-> RayNew(position,
                        Rotate(cam.transform_sequence.orientation,
                               Normalized(VPlus(cam.lower_left,
                                                VTimes2(cam.full_size, uv))))),
         rng |-> r]

\* ThinLensCamera::new (camera.rs lines 46-66); half_height is
\* tan(vfov * PI / 180 / 2), which stands for vfov.
ThinLensNew(aspect, half_height, aperture, origin, at, up, focus) ==
    [half_size |-> <<QMul(aspect, half_height), half_height>>,
     aperture |-> aperture, origin |-> origin, at |-> at, up |-> up, focus |-> focus]

\* Lines 84-86: the camera basis.
BasisOf(origin, at, up) ==
    LET basis_w == Normalized(VMinus(origin, at))
        basis_u == Normalized(Cross(up, basis_w))
        basis_v == Cross(basis_w, basis_u)
    IN  <<basis_u, basis_v, basis_w>>

\* Mutant of ThinLensGetRayOf: the lens offset does not scale with the aperture.
ThinLensFixedLens(cam, uv, time, r) ==
    LET origin == SampleAt(cam.origin, time)
        focus_dist == Magnitude(VMinus(SampleAt(cam.focus, time), origin))
        b == BasisOf(origin, SampleAt(cam.at, time), SampleAt(cam.up, time))
        lower_left ==
            VMinus(VMinus(VMinus(origin,
                                 VTimes(VTimes(b[1], cam.half_size[1]), focus_dist)),
                          VTimes(VTimes(b[2], cam.half_size[2]), focus_dist)),
                   VTimes(b[3], focus_dist))
        horiz == VTimes(VTimes(VTimes(VTimes(b[1], cam.half_size[1]), focus_dist),
                               2 * QOne), uv[1])
        verti == VTimes(VTimes(VTimes(VTimes(b[2], cam.half_size[2]), focus_dist),
                               2 * QOne), uv[2])
        rnd == RandInUnitDisk(r)
        rd == rnd.value
        offset == VPlus(VTimes(b[1], rd[1]), VTimes(b[2], rd[2]))
        lens == VPlus(origin, offset)
    IN  [ray |-> RayNew(lens,
                        Normalized(VMinus(VPlus(VPlus(lower_left, horiz), verti), lens))),
         rng |-> rnd.rng]

\* ThinLensCamera::get_ray (camera.rs lines 76-102) called with rng in state r.
ThinLensGetRayOf(cam, uv, time, r) ==
    LET origin == SampleAt(cam.origin, time)
        focus_dist == Magnitude(VMinus(SampleAt(cam.focus, time), origin))
        b == BasisOf(origin, SampleAt(cam.at, time), SampleAt(cam.up, time))
        lower_left ==
            VMinus(VMinus(VMinus(origin,
                                 VTimes(VTimes(b[1], cam.half_size[1]), focus_dist)),
                          VTimes(VTimes(b[2], cam.half_size[2]), focus_dist)),
                   VTimes(b[3], focus_dist))
        horiz == VTimes(VTimes(VTimes(VTimes(b[1], cam.half_size[1]), focus_dist),
                               2 * QOne), uv[1])
        verti == VTimes(VTimes(VTimes(VTimes(b[2], cam.half_size[2]), focus_dist),
                               2 * QOne), uv[2])
        rnd == RandInUnitDisk(r)
        rd == <<QMul(rnd.value[1], cam.aperture), QMul(rnd.value[2], cam.aperture)>>
        offset == VPlus(VTimes(b[1], rd[1]), VTimes(b[2], rd[2]))
        lens == VPlus(origin, offset)
    IN  [ray |-> RayNew(lens,
                        Normalized(VMinus(VPlus(VPlus(lower_left, horiz), verti), lens))),
         rng |-> rnd.rng]

\* The cameras of the scenarios: a thin-lens camera that looks along an axis
\* (possibly with its origin on the look-at point, or with an up vector along
\* the view axis), focused at a point on the view axis, moving at a constant
\* velocity; and the pinhole camera at the same origin whose orientation is
\* the basis of the thin-lens camera (no rotation where that basis is
\* undefined), with the same aspect ratio.
Aspects == {QOne, 2 * QOne}
ViewAxes == {<<0, 0, QOne>>, <<QOne, 0, 0>>}
Ups == {<<0, QOne, 0>>, <<0, 0, QOne>>}
Velocities == {<<0, 0, 0>>, <<QOne, 0, 0>>}
Times == {0, QOne}
UVs == {0, QHalf, QOne} \X {0, QHalf, QOne}

Identity == << <<QOne, 0, 0>>, <<0, QOne, 0>>, <<0, 0, QOne>> >>

OrientationOf(origin, at, up) ==
    LET b == BasisOf(origin, at, up)
    IN  IF \E i \in 1..3 : b[i] = NaNVec THEN Identity ELSE b

InitCameras ==
    \E aspect \in Aspects, hh \in 1..MaxHalfHeight, ap \in 0..MaxAperture,
       w \in ViewAxes, up \in Ups, k \in {0, 1}, f \in 0..MaxFocus,
       vel \in Velocities, r \in RngStates :
        LET at0 == <<QOne, 0, 2 * QOne>>
            moving(p) == [at0 |-> p, velocity |-> vel]
            still(p) == [at0 |-> p, velocity |-> <<0, 0, 0>>]
            origin == moving(at0)
            at == moving(VMinus(at0, VTimes(w, k * QOne)))
            focus == moving(VMinus(at0, VTimes(w, f * QOne)))
        IN  /\ hitables = <<>>
            /\ built = FALSE
            /\ hits = <<>>
            /\ wintersections = <<>>
            /\ op = "new"
            /\ unchecked = {}
            /\ ray = NoPacket.ray
            /\ t_end = NoPacket.t_end
            /\ t_ret = NoPacket.t_ret
            /\ occluded_ret = <<>>
            /\ occ_result = <<>>
            /\ camera =
                  [pinhole |->
                      PinholeNew(aspect,
                                 [position |-> origin,
                                  orientation |-> OrientationOf(origin.at0, at.at0, up)]),
                   thin_lens |->
                      ThinLensNew(aspect, hh * QHalf, ap * QOne, origin, at, still(up),
                                  focus)]
            /\ rng = r
            /\ cam_ray = <<>>
            /\ NoThreads /\ NoShading

OnlyCameras ==
    UNCHANGED <<hitables, built, hits, wintersections, unchecked, packet, occlusion,
                threads, shading>>

\* A get_ray call on the pinhole camera. The calls made before it are in the
\* state of rng, which is any at the start.
PinholeGetRay ==
    \E uv \in UVs, time \in Times :
        LET res == PinholeGetRayOf(camera.pinhole, uv, time, rng)
        IN  /\ op = "new"
            /\ cam_ray' = [uv |-> uv, time |-> time, ray |-> res.ray]
            /\ rng' = res.rng
            /\ op' = "pinhole_get_ray"
            /\ UNCHANGED camera
            /\ OnlyCameras

\* A get_ray call on the thin-lens camera.
ThinLensGetRay ==
    \E uv \in UVs, time \in Times :
        LET res == ThinLensGetRayOf(camera.thin_lens, uv, time, rng)
        IN  /\ op = "new"
            /\ cam_ray' = [uv |-> uv, time |-> time, ray |-> res.ray]
            /\ rng' = res.rng
            /\ op' = "thin_lens_get_ray"
            /\ UNCHANGED camera
            /\ OnlyCameras

NextCameras == PinholeGetRay \/ ThinLensGetRay

SpecCameras == InitCameras /\ [][NextCameras]_vars

\* ----------------------------------------------- f32 for occlusion values

\* An f32 with MantBits bits of significand and the least exponent -FracBits:
\* the number v stands for v * 2^-FracBits, a value of [0, 1]; VisNaN is NaN.
One == 2^FracBits
VisNaN == One + 1

RECURSIVE BitLen(_)
BitLen(v) == IF v = 0 THEN 0 ELSE 1 + BitLen(v \div 2)

\* The distance from v to the next value of its binade (1 for a subnormal).
Ulp(v) == IF v < 2^MantBits THEN 1 ELSE 2^(BitLen(v) - MantBits)

Finite == {v \in 0..One : v % Ulp(v) = 0}
Vis == Finite \cup {VisNaN}

\* The value nearest to a / One, the one with the even significand on a tie.
RoundNearestEven(a) ==
    LET lo == CHOOSE r \in Finite :
                  r * One <= a /\ \A q \in Finite : q * One <= a => q <= r
        hi == CHOOSE r \in Finite :
                  r * One >= a /\ \A q \in Finite : q * One >= a => q >= r
    IN  IF a - lo * One < hi * One - a THEN lo
        ELSE IF a - lo * One > hi * One - a THEN hi
        ELSE IF (lo \div Ulp(lo)) % 2 = 0 THEN lo ELSE hi

\* f32 `*` on [0, 1] and NaN, correctly rounded.
MulTable ==
    [a \in Vis, b \in Vis |->
        IF a = VisNaN \/ b = VisNaN THEN VisNaN ELSE RoundNearestEven(a * b)]

FMul(a, b) == MulTable[a, b]

\* f32x4 `*`: lane by lane.
WMul(a, b) == [l \in Lanes |-> FMul(a[l], b[l])]

\* --------------------------------------------- HitableStore::test_occluded

\* Mutant of OccInit: the fold starts from zero.
OccInitZero == Splat(0)

\* Line 170: f32x4::ONE
OccInit == Splat(One)

\* Mutant of OccStep: the value of the object replaces the product.
OccStepLast(acc, v) == v

\* Line 171: acc * hitable.occluded(start, end, time)
OccStep(acc, v) == WMul(acc, v)

\* Lines 170-172: the fold over the first k objects of objs, in order; ret
\* holds what occluded() of each object returns.
RECURSIVE OccFold(_, _, _)
OccFold(k, objs, ret) ==
    IF k = 0 THEN OccInit ELSE OccStep(OccFold(k - 1, objs, ret), ret[objs[k]])

\* Lines 169-173
TestOccludedOf(objs, ret) == OccFold(Len(objs), objs, ret)

\* What the objects return: base[i] is what object i returns in lane 1. In
\* lane 2 object 1 is a full blocker, in lane 3 no object blocks anything,
\* and in lane 4 every object returns what the next one returns in lane 1.
DrawnOcclusion(n, base) ==
    [i \in 1..n |->
        [l \in Lanes |->
            CASE l = 1 -> base[i]
              [] l = 2 -> IF i = 1 THEN 0 ELSE base[i]
              [] l = 3 -> One
              [] OTHER -> base[(i % n) + 1]]]

\* A HitableStore of n objects and what occluded() of each returns for the
\* start, end and time of the call.
InitOcc ==
    \E n \in 0..MaxOccluders :
        \E base \in [1..n -> Vis] :
            /\ hitables = [i \in 1..n |-> i]
            /\ built = FALSE
            /\ hits = <<>>
            /\ wintersections = <<>>
            /\ op = "new"
            /\ unchecked = {}
            /\ ray = NoPacket.ray
            /\ t_end = NoPacket.t_end
            /\ t_ret = NoPacket.t_ret
            /\ occluded_ret = DrawnOcclusion(n, base)
            /\ occ_result = <<>>
            /\ NoThreads /\ NoShading /\ NoCameras

\* HitableStore::test_occluded (lines 169-173)
TestOccluded ==
    /\ op = "new"
    /\ occ_result' = TestOccludedOf(hitables, occluded_ret)
    /\ op' = "test_occluded"
    /\ UNCHANGED <<hitables, built, hits, wintersections, unchecked, packet, occluded_ret,
                   threads, shading, cameras>>

NextOcc == TestOccluded

SpecOcc == InitOcc /\ [][NextOcc]_vars

\* ------------------------------------------------------ claims: add_hits

\* The hits a step appended to the staging list of the object id.
Added(id) == SubSeq(hits'[id + 1], Len(hits[id + 1]) + 1, Len(hits'[id + 1]))

\* How many of them carry the ray with identity r.
AddedFor(id, r) == Cardinality({j \in 1..Len(Added(id)) : Added(id)[j].ray.id = r})

\* How many entries of a staging list carry the ray with identity r.
StagedFor(list, r) == Cardinality({j \in 1..Len(list) : list[j].ray.id = r})

ObjIds == 0..(Len(hitables) - 1)

\* What hit() of the object id returned in lane l.
Ret(id, l) == t_ret[id + 1][l]

\* C1: add_hits records, for each lane with a valid ray in which some object
\* returns a t below the end of the lane's range, exactly one Hit: in the list
\* of an object whose t is the minimum of the lane, with the lane's ray and
\* that t; no other list receives a hit of the lane. (In SpecAddHits the ray
\* of lane l has identity l.)
C1_NearestObjectRecorded ==
    [][op' = "add_hits" =>
        \A l \in Lanes :
            (ray.valid[l] /\ \E i \in ObjIds : FLt(Ret(i, l), t_end[l])) =>
                \E a \in ObjIds :
                    /\ FLt(Ret(a, l), t_end[l])
                    /\ \A b \in ObjIds : ~FLt(Ret(b, l), Ret(a, l))
                    /\ AddedFor(a, l) = 1
                    /\ \E j \in 1..Len(Added(a)) :
                          Added(a)[j] = [ray |-> RaysOf(ray)[l], t |-> Ret(a, l)]
                    /\ \A b \in ObjIds \ {a} : AddedFor(b, l) = 0]_vars

\* C1 witness: a later object A returned a smaller t than an earlier object B
\* in a lane with a valid ray; A's list holds the hit and B's holds none.
C1_Witness ==
    /\ op = "add_hits"
    /\ \E l \in Lanes, a \in ObjIds, b \in ObjIds :
          /\ b < a
          /\ ray.valid[l]
          /\ FLt(Ret(a, l), Ret(b, l))
          /\ FLt(Ret(b, l), t_end[l])
          /\ StagedFor(hits[a + 1], l) > 0
          /\ StagedFor(hits[b + 1], l) = 0

\* C2: when two or more objects return the same minimal t in a lane (with a
\* valid ray, below the end of the range), the Hit goes to the list of the
\* one with the lowest id and to no other list.
C2_TieGoesToEarliest ==
    [][op' = "add_hits" =>
        \A l \in Lanes, a \in ObjIds, b \in ObjIds :
            ( /\ a < b
              /\ ray.valid[l]
              /\ Ret(a, l) = Ret(b, l)
              /\ FLt(Ret(a, l), t_end[l])
              /\ \A c \in ObjIds : ~FLt(Ret(c, l), Ret(a, l))
              /\ \A c \in ObjIds : c < a => Ret(c, l) # Ret(a, l) ) =>
                /\ AddedFor(a, l) = 1
                /\ \A c \in ObjIds \ {a} : AddedFor(c, l) = 0]_vars

\* C2 witness: two objects tied at the minimum of a valid lane and the hit is
\* in the list of the first.
C2_Witness ==
    /\ op = "add_hits"
    /\ \E l \in Lanes, a \in ObjIds, b \in ObjIds :
          /\ a < b
          /\ ray.valid[l]
          /\ Ret(a, l) = Ret(b, l)
          /\ FLt(Ret(a, l), t_end[l])
          /\ \A c \in ObjIds : ~FLt(Ret(c, l), Ret(a, l))
          /\ StagedFor(hits[a + 1], l) > 0
          /\ StagedFor(hits[b + 1], l) = 0

\* C3: add_hits records no Hit for a lane whose ray is invalid, whatever the
\* objects returned for it: every Hit it appends carries a valid ray.
C3_NoHitForInvalidRay ==
    [][op' = "add_hits" =>
        /\ \A l \in Lanes : ~ray.valid[l] => \A a \in ObjIds : AddedFor(a, l) = 0
        /\ \A a \in ObjIds : \A j \in 1..Len(Added(a)) : Added(a)[j].ray.valid]_vars

\* C3 witness: an object reported a hit below the end of the range in a lane
\* with an invalid ray, in a call that recorded the hit of another lane.
C3_Witness ==
    /\ op = "add_hits"
    /\ \E l \in Lanes, a \in ObjIds :
          /\ ~ray.valid[l]
          /\ FLt(Ret(a, l), t_end[l])
          /\ \A i \in 1..Len(hits) : StagedFor(hits[i], l) = 0
    /\ \E i \in 1..Len(hits) : hits[i] # <<>>

\* C4: a lane in which every object returns a value >= the end of the range
\* (or there is no object) gets no Hit, and every Hit add_hits records has a
\* t below the end of the range of its lane.
C4_NoIntersectionNoHit ==
    [][op' = "add_hits" =>
        /\ \A l \in Lanes :
              (\A i \in ObjIds : FGe(Ret(i, l), t_end[l])) =>
                  \A a \in ObjIds : AddedFor(a, l) = 0
        /\ \A a \in ObjIds : \A j \in 1..Len(Added(a)) :
              FLt(Added(a)[j].t, t_end[Added(a)[j].ray.id])]_vars

\* C4 witness: a valid lane in which every object returned a value >= the end
\* of the range has no hit, in a call that recorded the hit of another lane.
C4_Witness ==
    /\ op = "add_hits"
    /\ Len(hitables) > 0
    /\ \E l \in Lanes :
          /\ ray.valid[l]
          /\ \A i \in ObjIds : FGe(Ret(i, l), t_end[l])
          /\ \A i \in 1..Len(hits) : StagedFor(hits[i], l) = 0
    /\ \E i \in 1..Len(hits) : hits[i] # <<>>

\* -------------------------------------------- claims: process_hits, reset

\* The entries a step appended to the output buffer.
NewEntries == SubSeq(wintersections', Len(wintersections) + 1, Len(wintersections'))

\* The Hit in lane l of a WHit.
LaneHit(w, l) == [ray |-> [valid |-> w.ray.valid[l], id |-> w.ray.id[l]], t |-> w.t[l]]

\* ceil(n / 4)
CeilLanes(n) == (n + LaneCount - 1) \div LaneCount

RECURSIVE SumCeil(_)
SumCeil(store) ==
    IF store = <<>> THEN 0 ELSE CeilLanes(Len(Head(store))) + SumCeil(Tail(store))

\* The positions of the new entries that get_shading_info of object obj made.
BatchesOf(obj) == {j \in 1..Len(NewEntries) : NewEntries[j].by = obj}

\* C5: process_hits hands ceil(staged_count / 4) batches to every object,
\* staged_count being the length of its list before the padding; every real
\* (valid-ray) hit staged is in exactly as many lanes of the object's batches
\* as it is staged in its list, and the batches hold no other real hit; the
\* output buffer grows by the sum of the batch counts.
C5_BatchesPerObject ==
    [][op' = "process_hits" =>
        /\ \A i \in 1..Len(hits) :
              /\ Cardinality(BatchesOf(hitables[i])) = CeilLanes(Len(hits[i]))
              /\ \A h \in {hits[i][j] : j \in 1..Len(hits[i])} \cup
                          {LaneHit(NewEntries[j].hits, l) :
                              j \in BatchesOf(hitables[i]), l \in Lanes} :
                    h.ray.valid =>
                        Cardinality({<<j, l>> \in BatchesOf(hitables[i]) \X Lanes :
                                        LaneHit(NewEntries[j].hits, l) = h})
                            = Cardinality({j \in 1..Len(hits[i]) : hits[i][j] = h})
        /\ Len(NewEntries) = SumCeil(hits)
        /\ \A j \in 1..Len(NewEntries) :
              \E i \in 1..Len(hits) : NewEntries[j].by = hitables[i]]_vars

\* C5 witness: process_hits has run on a list of five real hits (two batches)
\* beside a list of another object.
C5_Witness ==
    /\ op = "process_hits"
    /\ Len(hits) >= 2
    /\ \E i \in 1..Len(hits) :
          /\ Len(hits[i]) = 2 * LaneCount
          /\ CountValid(hits[i]) = LaneCount + 1
          /\ Len(wintersections) >= 2
          /\ \E k \in 1..Len(hits) : k # i /\ CountValid(hits[k]) > 0

\* C6: process_hits appends (4 - n mod 4) mod 4 sentinels with an invalid ray
\* to a list of length n, after its entries, which stay as they are; every
\* list then has a length that is a multiple of four, and the batches handed
\* to an object are the groups of four of its padded list.
C6_PaddedToMultipleOfFour ==
    [][op' = "process_hits" =>
        /\ Len(hits') = Len(hits)
        /\ \A i \in 1..Len(hits) :
              LET n == Len(hits[i])
              IN  /\ Len(hits'[i]) = n + ((LaneCount - (n % LaneCount)) % LaneCount)
                  /\ SubSeq(hits'[i], 1, n) = hits[i]
                  /\ \A j \in (n + 1)..Len(hits'[i]) : ~hits'[i][j].ray.valid
                  /\ Len(hits'[i]) % LaneCount = 0
                  /\ LaneCount * Cardinality(BatchesOf(hitables[i])) = Len(hits'[i])]_vars

\* C6 witness: after process_hits a list holds one real hit and the three
\* sentinels, another list is empty.
C6_Witness ==
    /\ op = "process_hits"
    /\ \E i \in 1..Len(hits) :
          /\ Len(hits[i]) = LaneCount
          /\ hits[i][1].ray.valid
          /\ \A j \in 2..LaneCount : hits[i][j] = Sentinel
    /\ \E i \in 1..Len(hits) : hits[i] = <<>>

\* C7: reset empties every staging list, keeps their number and leaves the
\* output buffer and the HitableStore alone; the process_hits that follows a
\* reset makes no get_shading_info call and appends nothing.
C7_ResetThenProcess ==
    [][ /\ op' = "reset" =>
            /\ Len(hits') = Len(hits)
            /\ \A i \in 1..Len(hits') : hits'[i] = <<>>
            /\ wintersections' = wintersections
            /\ hitables' = hitables
        /\ (op = "reset" /\ op' = "process_hits") =>
            /\ wintersections' = wintersections
            /\ unchecked' = {}
            /\ hits' = hits ]_vars

\* C7 witness: reset has run on a store with lists after a process_hits that
\* left entries in the output buffer, which is still as long.
C7_Witness ==
    /\ op = "reset"
    /\ Len(hits) >= 2
    /\ Len(wintersections) >= 2

\* ------------------------------------------------- claims: test_occluded

\* The product of the values of lane l, object after object.
RECURSIVE LaneProduct(_, _)
LaneProduct(k, l) ==
    IF k = 0 THEN One ELSE FMul(LaneProduct(k - 1, l), occluded_ret[hitables[k]][l])

InUnit(v) == v # VisNaN /\ 0 <= v /\ v <= One

\* C8: test_occluded returns all-ones for an empty collection; every lane is
\* the product of that lane's values, starting from one; and in a lane where
\* every value is in [0, 1] the result is in [0, 1], and is 0 when some
\* object returned 0.
C8_ProductOfOccluded ==
    op = "test_occluded" =>
        /\ Len(hitables) = 0 => occ_result = Splat(One)
        /\ \A l \in Lanes :
              /\ occ_result[l] = LaneProduct(Len(hitables), l)
              /\ (\A i \in 1..Len(hitables) : InUnit(occluded_ret[hitables[i]][l])) =>
                    /\ InUnit(occ_result[l])
                    /\ (\E i \in 1..Len(hitables) : occluded_ret[hitables[i]][l] = 0) =>
                            occ_result[l] = 0

\* C8 witness: a full blocker zeroes one lane among partial occluders, while
\* another lane stays positive.
C8_Witness ==
    /\ op = "test_occluded"
    /\ Len(hitables) >= 2
    /\ \E l \in Lanes, i \in 1..Len(hitables), k \in 1..Len(hitables) :
          /\ occluded_ret[hitables[i]][l] = 0
          /\ InUnit(occluded_ret[hitables[k]][l])
          /\ 0 < occluded_ret[hitables[k]][l] /\ occluded_ret[hitables[k]][l] < One
          /\ occ_result[l] = 0
    /\ \E l \in Lanes : InUnit(occ_result[l]) /\ 0 < occ_result[l] /\ occ_result[l] < One

\* The collection in the order p.
Permuted(p) == [i \in 1..Len(hitables) |-> hitables[p[i]]]

\* C9 as claimed: every permutation of the collection gives the same result
\* in every lane.
C9_OrderIndependent ==
    op = "test_occluded" =>
        \A p \in Permutations(1..Len(hitables)) :
            TestOccludedOf(Permuted(p), occluded_ret) = occ_result

\* C9 amended: every permutation gives the same result when the collection
\* holds at most two objects or every object returns 0 or 1 in every lane.
C9_OrderIndependentExact ==
    (/\ op = "test_occluded"
     /\ \/ Len(hitables) <= 2
        \/ \A i \in 1..Len(hitables), l \in Lanes :
              occluded_ret[hitables[i]][l] \in {0, One}) =>
        \A p \in Permutations(1..Len(hitables)) :
            TestOccludedOf(Permuted(p), occluded_ret) = occ_result

\* C9 witness: three objects that return 0 or 1, a blocker among them.
C9_Witness ==
    /\ op = "test_occluded"
    /\ Len(hitables) >= 3
    /\ \A i \in 1..Len(hitables), l \in Lanes : occluded_ret[hitables[i]][l] \in {0, One}
    /\ occluded_ret[hitables[3]][1] = 0
    /\ occluded_ret[hitables[1]][1] = One
    /\ occ_result[1] = 0

\* ------------------------------------------------- claims: ids and sizing

\* C11: push appends one object behind the others, whose positions (ids) stay
\* as they are, and no other operation changes the collection; the object a
\* push adds is none of those the collection holds; from_hitable_store makes
\* one empty staging list per object the HitableStore holds at that moment;
\* add_hits, process_hits and reset keep the number of staging lists.
C11_IdsStableStoreSized ==
    [][ /\ op' = "push" =>
            /\ Len(hitables') = Len(hitables) + 1
            /\ SubSeq(hitables', 1, Len(hitables)) = hitables
            /\ \A i \in 1..Len(hitables) : hitables[i] # hitables'[Len(hitables')]
        /\ op' # "push" => hitables' = hitables
        /\ op' = "from_hitable_store" =>
            /\ Len(hits') = Len(hitables)
            /\ \A i \in 1..Len(hits') : hits'[i] = <<>>
        /\ op' \in {"add_hits", "process_hits", "reset"} => Len(hits') = Len(hits)
      ]_vars

\* C11 witness: a second object was pushed behind the first while a HitStore
\* with staged hits existed for the collection.
C11_Witness ==
    /\ op = "push"
    /\ hitables = <<1, 2>>
    /\ built
    /\ Len(hits) = 1
    /\ hits[1] # <<>>

\* ------------------------------------------------ claims: render threads

\* A thread is between two operations.
Between(w) == worker[w].pc \in {"start", "staged", "processed", "done"}

\* C12: under every interleaving of the threads' steps the shared
\* HitableStore stays as it is, and whenever a thread is between two
\* operations its staging lists and output buffer are what its own
\* operations give when run alone.
C12_WorkersIndependent ==
    [][ /\ hitables' = hitables
        /\ \A w \in Workers :
              Between(w)' =>
                  /\ worker'[w].hits = solo'[w].hits
                  /\ worker'[w].out = solo'[w].out ]_vars

\* C12 witness: a thread has finished its pass with an entry in its buffer
\* while another thread is inside the dispatch loop of process_hits with a
\* hit of its own staged.
C12_Witness ==
    /\ worker # <<>>
    /\ \E w \in Workers, v \in Workers :
          /\ w # v
          /\ worker[w].pc = "done"
          /\ worker[w].out # <<>>
          /\ worker[v].pc = "dispatch"
          /\ worker[v].k = 1
          /\ SumLens(worker[v].hits) > 0

\* ------------------------------------------------- claims: WShadingPoint

\* The stored point of lane l moved by x times the stored normal.
Displaced(l, x) ==
    VAdd(shading_point.point[l], VScale(shading_point.normal[l], x))

NormalDotDir(l) == Dot(shading_point.normal[l], dir[l])

\* C13: in every lane the ray create_rays returns has the given direction,
\* and its origin is the stored point moved along the stored normal by the
\* stored offset times the sign of normal . direction: by +offset when the
\* dot product is positive, by -offset when it is negative (by one of the two
\* when it is a zero); the move never goes against the new direction.
C13_CreateRaysOffset ==
    op = "create_rays" =>
        \A l \in Lanes :
            /\ created.dir[l] = dir[l]
            /\ NormalDotDir(l) > 0 =>
                    created.origin[l] = Displaced(l, shading_point.offset_by[l])
            /\ NormalDotDir(l) < 0 =>
                    created.origin[l] = Displaced(l, 0 - shading_point.offset_by[l])
            /\ created.origin[l] \in {Displaced(l, shading_point.offset_by[l]),
                                      Displaced(l, 0 - shading_point.offset_by[l])}
            /\ Dot(VAdd(created.origin[l], VScale(shading_point.point[l], 0 - 1)),
                   dir[l]) >= 0

\* C13 witness: two lanes with opposite normals, a positive offset and the
\* same direction got origins on opposite sides of their points.
C13_Witness ==
    /\ op = "create_rays"
    /\ NormalDotDir(4) > 0
    /\ NormalDotDir(2) < 0
    /\ shading_point.offset_by[4] > 0
    /\ shading_point.offset_by[2] > 0
    /\ created.origin[4] # shading_point.point[4]
    /\ created.origin[2] # shading_point.point[2]
    /\ created.origin[4] = Displaced(4, shading_point.offset_by[4])
    /\ created.origin[2] = Displaced(2, 0 - shading_point.offset_by[2])

\* C20: in every lane the ray create_rays returns has the validity (and every
\* field but origin and direction) of the ray of the hit the shading point
\* was built from: the lane of a padding sentinel gives an invalid ray.
C20_ValidityKept ==
    op = "create_rays" =>
        /\ created.valid = new_hit.ray.valid
        /\ created.id = new_hit.ray.id
        /\ DOMAIN created = DOMAIN new_hit.ray

\* C20 witness: a batch of one real hit and three sentinels; the secondary
\* ray of a sentinel lane has a new origin and is invalid.
C20_Witness ==
    /\ op = "create_rays"
    /\ new_hit.ray.valid = [l \in Lanes |-> l = 1]
    /\ created.valid[1]
    /\ ~created.valid[4]
    /\ created.origin[4] # new_hit.ray.origin[4]
    /\ created.dir[4] # new_hit.ray.dir[4]

\* ------------------------------------------------------- claims: cameras

\* C14: a get_ray call on the pinhole camera leaves rng in the state it found
\* it in, and returns the ray it returns for the same uv and time with rng in
\* any other state.
C14_PinholeIgnoresRng ==
    [][op' = "pinhole_get_ray" =>
        /\ rng' = rng
        /\ \A r \in RngStates :
              LET res == PinholeGetRayOf(camera.pinhole, cam_ray'.uv, cam_ray'.time, r)
              IN  res.ray = cam_ray'.ray /\ res.rng = r]_vars

\* C14 witness: a call at a later time on a moving camera, off the centre of
\* the image, with rng in a state other than the first.
C14_Witness ==
    /\ op = "pinhole_get_ray"
    /\ rng = 2
    /\ cam_ray.time = QOne
    /\ cam_ray.uv = <<0, QOne>>
    /\ cam_ray.ray.origin # camera.pinhole.transform_sequence.position.at0
    /\ cam_ray.ray.dir # NaNVec

\* f32 `==` on Vec3: false as soon as a side is not a number.
SameVec(a, b) == a # NaNVec /\ b # NaNVec /\ a = b
SameRay(a, b) == SameVec(a.origin, b.origin) /\ SameVec(a.dir, b.dir)

SampledOrigin == SampleAt(camera.thin_lens.origin, cam_ray.time)

SampledBasis ==
    BasisOf(SampledOrigin, SampleAt(camera.thin_lens.at, cam_ray.time),
            SampleAt(camera.thin_lens.up, cam_ray.time))

FocusDist == Magnitude(VMinus(SampleAt(camera.thin_lens.focus, cam_ray.time), SampledOrigin))

\* The basis is defined: the origin is off the look-at point and the up
\* vector is not along the view axis.
BasisDefined == \A i \in 1..3 : SampledBasis[i] # NaNVec

\* The point of the focus plane for uv: from the origin, focus_dist against
\* basis_w, and (2 uv - 1) * half_size * focus_dist along basis_u and basis_v.
FocusPlanePoint ==
    LET hs == camera.thin_lens.half_size
        x == QMul(QMul(QMul(2 * QOne, cam_ray.uv[1]) - QOne, hs[1]), FocusDist)
        y == QMul(QMul(QMul(2 * QOne, cam_ray.uv[2]) - QOne, hs[2]), FocusDist)
    IN  VPlus(VPlus(VPlus(SampledOrigin, VTimes(SampledBasis[1], x)),
                    VTimes(SampledBasis[2], y)),
              VTimes(SampledBasis[3], 0 - FocusDist))

RECURSIVE BatchesBefore(_, _)
BatchesBefore(store, i) ==
    IF i <= 1 THEN 0
    ELSE BatchesBefore(store, i - 1) + (Len(store[i - 1]) \div LaneCount)

\* C16: process_hits leaves the entries the output buffer holds as they are
\* and appends behind them one entry per batch, object after object in
\* ascending id and, for one object, in the order of its staging list: lane
\* l of the k-th batch of object i is the Hit (ray and t) at position
\* 4 (k - 1) + l of its padded list, and the entry was made by
\* get_shading_info of object i.
C16_DispatchOrder ==
    [][op' = "process_hits" =>
        /\ Len(wintersections') >= Len(wintersections)
        /\ SubSeq(wintersections', 1, Len(wintersections)) = wintersections
        /\ Len(NewEntries) = BatchesBefore(hits', Len(hits') + 1)
        /\ \A i \in 1..Len(hits') :
              \A k \in 1..(Len(hits'[i]) \div LaneCount) :
                  LET e == NewEntries[BatchesBefore(hits', i) + k]
                  IN  /\ e.by = hitables[i]
                      /\ \A m \in 1..Len(hitables) : m # i => e.by # hitables[m]
                      /\ \A l \in Lanes :
                            LaneHit(e.hits, l) = hits'[i][LaneCount * (k - 1) + l]
      ]_vars

\* C16 witness: the first object had one batch and the second two; the three
\* entries are in the buffer in that order.
C16_Witness ==
    /\ op = "process_hits"
    /\ Len(hits) = 2
    /\ Len(hits[1]) = LaneCount
    /\ Len(hits[2]) = 2 * LaneCount
    /\ hits[2][LaneCount + 1].ray.valid
    /\ Len(wintersections) = 3
    /\ wintersections[1].by = hitables[1]
    /\ wintersections[2].by = hitables[2]
    /\ wintersections[3].by = hitables[2]
    /\ wintersections[2].hits # wintersections[3].hits

\* The object that wins lane l: the first one whose t is below the end of the
\* range and not above the t of any other; Len(hitables) when there is none.
Winner(l) ==
    LET best == {a \in ObjIds :
                    /\ FLt(Ret(a, l), t_end[l])
                    /\ \A b \in ObjIds : ~FLt(Ret(b, l), Ret(a, l))
                    /\ \A b \in ObjIds : b < a => Ret(b, l) # Ret(a, l)}
    IN  IF best = {} THEN Len(hitables) ELSE CHOOSE a \in best : TRUE

\* The lanes whose hit goes to the object a, in lane order.
RECURSIVE LanesWonBy(_, _)
LanesWonBy(a, l) ==
    IF l = 0 THEN <<>>
    ELSE IF ray.valid[l] /\ Winner(l) = a
         THEN Append(LanesWonBy(a, l - 1), l)
         ELSE LanesWonBy(a, l - 1)

\* C17: a call of add_hits leaves every Hit already staged where it is and
\* appends behind them, to the list of every object, the Hits of the lanes
\* that object won, in lane order: at most four in all and at most one per
\* lane. (In SpecAddHits the ray of lane l has identity l.)
C17_AddHitsAppendsOnly ==
    [][op' = "add_hits" =>
        /\ Len(hits') = Len(hits)
        /\ \A a \in ObjIds :
              /\ Len(hits'[a + 1]) >= Len(hits[a + 1])
              /\ SubSeq(hits'[a + 1], 1, Len(hits[a + 1])) = hits[a + 1]
              /\ Added(a) = [j \in 1..Len(LanesWonBy(a, LaneCount)) |->
                                LET l == LanesWonBy(a, LaneCount)[j]
                                IN  [ray |-> RaysOf(ray)[l], t |-> Ret(a, l)]]
        /\ SumLens(hits') - SumLens(hits) <= LaneCount
        /\ \A l \in Lanes :
              Cardinality({a \in ObjIds : AddedFor(a, l) > 0}) <= 1
      ]_vars

\* C17 witness: of two objects, one has the hits of two lanes from each of
\* two calls, in lane order, call after call.
C17_Witness ==
    /\ op = "add_hits"
    /\ Len(hitables) = 2
    /\ \E a \in ObjIds :
          /\ Len(hits[a + 1]) = 4
          /\ hits[a + 1][1].ray.id < hits[a + 1][2].ray.id
          /\ hits[a + 1][3] = hits[a + 1][1]
          /\ hits[a + 1][4] = hits[a + 1][2]

\* C18: in every batch process_hits hands to get_shading_info lane 1 holds a
\* hit with a valid ray, and a lane with a valid ray is never behind a lane
\* with an invalid one: the sentinels are the trailing lanes, three at most,
\* and no batch is made of sentinels only.
C18_RealHitsLeadBatch ==
    [][op' = "process_hits" =>
        \A j \in 1..Len(NewEntries) :
            LET w == NewEntries[j].hits
            IN  /\ w.ray.valid[1]
                /\ \A l \in 2..LaneCount : w.ray.valid[l] => w.ray.valid[l - 1]
                /\ \A l \in Lanes : ~w.ray.valid[l] => LaneHit(w, l) = Sentinel
                /\ Cardinality({l \in Lanes : ~w.ray.valid[l]}) <= LaneCount - 1
      ]_vars

\* C18 witness: a hit was staged behind the padding of an earlier
\* process_hits, and the next process_hits made a batch that starts with it.
C18_Witness ==
    /\ op = "process_hits"
    /\ \E i \in 1..Len(hits) :
          /\ Len(hits[i]) = 2 * LaneCount
          /\ hits[i][1].ray.valid
          /\ hits[i][2] = Sentinel
          /\ hits[i][LaneCount + 1].ray.valid
          /\ hits[i][LaneCount + 2] = Sentinel
    /\ Len(wintersections) = 2
    /\ wintersections[2].hits.ray.valid = [l \in Lanes |-> l = 1]

\* The entries a process_hits call appends for the lists of hits.
Batches(store) ==
    [j \in 1..Len(Dispatch(hitables, store, Len(store), TRUE)) |->
        [by   |-> Dispatch(hitables, store, Len(store), TRUE)[j].by,
         hits |-> Dispatch(hitables, store, Len(store), TRUE)[j].hits]]

\* The objects and batches of the last n entries of a buffer.
LastBatches(buffer, n) ==
    [j \in 1..n |-> [by   |-> buffer[Len(buffer) - n + j].by,
                     hits |-> buffer[Len(buffer) - n + j].hits]]

\* C19: process_hits keeps every entry of every list, in order, and only adds
\* padding behind them (as do push and the caller's use of its buffer, which
\* do not touch the lists; what add_hits does to them is C17); a
\* process_hits that follows a process_hits pads nothing and appends entries
\* for the same batches and objects, as many as the call before it.
C19_ProcessKeepsLists ==
    [][ /\ op' \in {"process_hits", "push", "take_output"} =>
            /\ Len(hits') = Len(hits)
            /\ \A i \in 1..Len(hits) :
                  /\ Len(hits'[i]) >= Len(hits[i])
                  /\ SubSeq(hits'[i], 1, Len(hits[i])) = hits[i]
        /\ op' = "process_hits" =>
            /\ \A i \in 1..Len(hits) :
                  \A j \in (Len(hits[i]) + 1)..Len(hits'[i]) : hits'[i][j] = Sentinel
        /\ (op = "process_hits" /\ op' = "process_hits") =>
            /\ hits' = hits
            /\ Len(NewEntries) = SumCeil(hits)
            /\ Len(wintersections) >= Len(NewEntries)
            /\ LastBatches(wintersections', Len(NewEntries))
                    = LastBatches(wintersections, Len(NewEntries))
            /\ LastBatches(wintersections', Len(NewEntries)) = Batches(hits)
      ]_vars

\* C19 witness: process_hits has run twice in a row on a list with a hit;
\* the buffer holds the same batch of the same object twice.
C19_Witness ==
    /\ op = "process_hits"
    /\ Len(wintersections) = 2
    /\ wintersections[1].by = wintersections[2].by
    /\ wintersections[1].hits = wintersections[2].hits
    /\ wintersections[1].hits.ray.valid[1]
    /\ \E i \in 1..Len(hits) : Len(hits[i]) = LaneCount
    /\ \A i \in 1..Len(hits) : Len(hits[i]) \in {0, LaneCount}

\* ------------------------------------------------ claims: unchecked access

\* C10: every unchecked index is inside its Vec: the ids add_hits hands to
\* add_hit are below the number of staging lists, the ids process_hits looks
\* objects up with are below the number of objects.
C10_UncheckedInBounds == \A a \in unchecked : a.index < a.len

====
